---- MODULE Spec2Model ----
(***************************************************************************)
(* Model of the quadtree of src/tree.py: the concurrent construction of    *)
(* QuadTree (one thread per child of a node that splits), the extraction   *)
(* of leaves by depth and the point operations of QuadtreeNode.            *)
(*                                                                         *)
(* A node is named by its path from the root (the indices 0..3 taken in    *)
(* the childrens lists); the path stands for the node object.  Python's    *)
(* None is the empty tuple.  Coordinates are counted in units of 1/Scale   *)
(* pixel, so that every halving the code does with "/ 2" is exact.         *)
(***************************************************************************)
EXTENDS Integers, Sequences, FiniteSets, TLC

MAX_DEPTH == 8

ERROR_THRESHOLD == 13

\* Side of the source images, in pixels.
ImgSize == 4

\* Largest length a node_points list is allowed to grow to.
MaxPoints == 3

None == <<>>

Scale == 2 ^ (MAX_DEPTH + 1)

Quadrants == 0 .. 3

\* Python's "a / 2" on a value counted in 1/Scale units.
Half(a) == a \div 2

-----------------------------------------------------------------------------
(* Points                                                                  *)

Point(x_coordinate, y_coordinate) ==
    [x_coordinate |-> x_coordinate, y_coordinate |-> y_coordinate]

\* Point.__eq__ as written: both coordinates of self against another's y.
PointEq(self, another) ==
    /\ self.x_coordinate = another.y_coordinate
    /\ self.y_coordinate = another.y_coordinate

\* The Point objects the callers pass, one object per coordinate pair.
Points ==
    { Point(1 * Scale, 1 * Scale), Point(3 * Scale, 1 * Scale),
      Point(1 * Scale, 3 * Scale), Point(2 * Scale, 2 * Scale) }

-----------------------------------------------------------------------------
(* Images: what PIL reports of the source image                            *)

FullBox(w, h) == <<0, 0, w * Scale, h * Scale>>

\* The centre of a box, as QuadtreeNode.__init__ computes it.
Center(box) ==
    Point(box[1] + Half(box[3] - box[1]), box[2] + Half(box[4] - box[2]))

\* SplitBoxes with the bottom-right box starting at the left edge.
SplitBoxesOverlap(box) ==
    LET c == Center(box)
    IN  << <<box[1], box[2], c.x_coordinate, c.y_coordinate>>,
           <<c.x_coordinate, box[2], box[3], c.y_coordinate>>,
           <<box[1], c.y_coordinate, c.x_coordinate, box[4]>>,
           <<box[1], c.y_coordinate, box[3], box[4]>> >>

\* The four boxes QuadtreeNode.split cuts, in the order of childrens.
SplitBoxes(box) ==
    LET c == Center(box)
    IN  << <<box[1], box[2], c.x_coordinate, c.y_coordinate>>,
           <<c.x_coordinate, box[2], box[3], c.y_coordinate>>,
           <<box[1], c.y_coordinate, c.x_coordinate, box[4]>>,
           <<c.x_coordinate, c.y_coordinate, box[3], box[4]>> >>

RECURSIVE BoxOfPath(_, _)
BoxOfPath(box, path) ==
    IF path = <<>> THEN box
    ELSE BoxOfPath(SplitBoxes(box)[Head(path) + 1], Tail(path))

\* image.getbbox(): the bounding box of the non-zero pixels, which is the
\* whole image, or less when the border is black, or None when all is black.
WholeBox == FullBox(ImgSize, ImgSize)

RightHalfBox == <<(ImgSize \div 2) * Scale, 0, ImgSize * Scale, ImgSize * Scale>>

Image(bbox, detail, flat) ==
    [size |-> <<ImgSize, ImgSize>>, bbox |-> bbox, detail |-> detail,
     flat |-> flat]

\* The source images.  detail is the set of regions (as paths below the root)
\* whose pixels vary enough to give an error above the threshold; every other
\* region gives the error flat.
Images ==
    { Image(WholeBox, {}, 0),
      Image(WholeBox, {}, ERROR_THRESHOLD),
      Image(WholeBox, {<<>>}, 0),
      Image(WholeBox, {<<>>, <<0>>}, 0),
      Image(WholeBox, {<<>>, <<3>>}, ERROR_THRESHOLD),
      Image(RightHalfBox, {}, 0),
      Image(RightHalfBox, {<<>>}, 0),
      Image(None, {}, 0) }

\* The error color_from_histogram yields for the crop of img to box.
ErrorOf(img, box) ==
    IF \E p \in img.detail : BoxOfPath(img.bbox, p) = box
    THEN ERROR_THRESHOLD + 1
    ELSE img.flat

-----------------------------------------------------------------------------
(* State                                                                   *)

VARIABLES
    image,      \* the source image
    phase,      \* "new", "building", "built", "error"
    nodes,      \* the QuadtreeNode objects, by path
    pc,         \* position of the __build_tree call on each node
    started,    \* threads each splitting call has started so far
    max_depth,  \* QuadTree.__max_depth
    lastOp      \* the last call made on the built tree, with what it returned

vars == <<image, phase, nodes, pc, started, max_depth, lastOp>>

NoOp == [op |-> "none", point |-> Point(0, 0), depth |-> 0, raised |-> FALSE,
         node |-> <<>>, list |-> <<>>]

\* The colour color_from_histogram yields for the crop of img to box: a value
\* that stands for the average colour of that region.
ColorOf(img, box) == <<"average", box>>

\* QuadtreeNode.__init__
QuadtreeNode(img, border_box, depth) ==
    [ border_box |-> border_box,
      depth |-> depth,
      childrens |-> None,
      is_leaf |-> FALSE,
      node_points |-> <<>>,
      node_center_point |-> Center(border_box),
      average_color |-> ColorOf(img, border_box),
      error |-> ErrorOf(img, border_box) ]

Init ==
    /\ image \in Images
    /\ phase = "new"
    /\ nodes = <<>>
    /\ pc = <<>>
    /\ started = <<>>
    /\ max_depth = 0
    /\ lastOp = NoOp

-----------------------------------------------------------------------------
(* Construction                                                            *)

Root == <<>>

\* QuadTree.__init__ up to the call of __build_tree on the root.  Indexing
\* the None that getbbox returns raises in QuadtreeNode.__init__.
QuadTreeInit ==
    /\ phase = "new"
    /\ IF image.bbox = None
       THEN /\ phase' = "error"
            /\ UNCHANGED <<nodes, pc, started, max_depth>>
       ELSE /\ phase' = "building"
            /\ nodes' = (Root :> QuadtreeNode(image, image.bbox, 0))
            /\ max_depth' = 0
            /\ pc' = (Root :> "test")
            /\ started' = (Root :> 0)
    /\ UNCHANGED <<image, lastOp>>

\* BuildTest stopping only below MAX_DEPTH (depth > MAX_DEPTH).
BuildTestPastMax(n) ==
    /\ phase = "building"
    /\ n \in DOMAIN pc
    /\ pc[n] = "test"
    /\ pc' = [pc EXCEPT ![n] =
                IF nodes[n].depth > MAX_DEPTH \/ nodes[n].error <= ERROR_THRESHOLD
                THEN IF nodes[n].depth > max_depth THEN "store" ELSE "mark"
                ELSE "split"]
    /\ UNCHANGED <<image, phase, nodes, started, max_depth, lastOp>>

\* BuildTest stopping only below the threshold (error < ERROR_THRESHOLD).
BuildTestStrict(n) ==
    /\ phase = "building"
    /\ n \in DOMAIN pc
    /\ pc[n] = "test"
    /\ pc' = [pc EXCEPT ![n] =
                IF nodes[n].depth >= MAX_DEPTH \/ nodes[n].error < ERROR_THRESHOLD
                THEN IF nodes[n].depth > max_depth THEN "store" ELSE "mark"
                ELSE "split"]
    /\ UNCHANGED <<image, phase, nodes, started, max_depth, lastOp>>

\* __build_tree, lines 377-378: the stopping condition, which reads the node
\* alone, and on stopping the comparison, which reads __max_depth.
BuildTest(n) ==
    /\ phase = "building"
    /\ n \in DOMAIN pc
    /\ pc[n] = "test"
    /\ pc' = [pc EXCEPT ![n] =
                IF nodes[n].depth >= MAX_DEPTH \/ nodes[n].error <= ERROR_THRESHOLD
                THEN IF nodes[n].depth > max_depth THEN "store" ELSE "mark"
                ELSE "split"]
    /\ UNCHANGED <<image, phase, nodes, started, max_depth, lastOp>>

\* __build_tree, lines 379-381 after a comparison that was true: the store is
\* a step of its own, other threads run between the comparison and it.
BuildStore(n) ==
    /\ phase = "building"
    /\ n \in DOMAIN pc
    /\ pc[n] = "store"
    /\ max_depth' = nodes[n].depth
    /\ nodes' = [nodes EXCEPT ![n].is_leaf = TRUE]
    /\ pc' = [pc EXCEPT ![n] = "done"]
    /\ UNCHANGED <<image, phase, started, lastOp>>

\* __build_tree, lines 380-381 after a comparison that was false.
BuildMark(n) ==
    /\ phase = "building"
    /\ n \in DOMAIN pc
    /\ pc[n] = "mark"
    /\ nodes' = [nodes EXCEPT ![n].is_leaf = TRUE]
    /\ pc' = [pc EXCEPT ![n] = "done"]
    /\ UNCHANGED <<image, phase, started, max_depth, lastOp>>

\* split leaving the bottom-right child out of childrens.
split_three(ns, img, n) ==
    LET boxes == SplitBoxes(ns[n].border_box)
        kids  == [q \in Quadrants |-> Append(n, q)]
        new   == [k \in {kids[q] : q \in Quadrants} |->
                    QuadtreeNode(img, boxes[k[Len(k)] + 1], ns[n].depth + 1)]
    IN  [k \in DOMAIN ns \cup DOMAIN new |->
            IF k \in DOMAIN new THEN new[k]
            ELSE IF k = n
                 THEN [ns[n] EXCEPT !.childrens = <<kids[0], kids[1], kids[2]>>]
                 ELSE ns[k]]

\* QuadtreeNode.split: four new nodes, then the one assignment of childrens.
split(ns, img, n) ==
    LET boxes == SplitBoxes(ns[n].border_box)
        kids  == [q \in Quadrants |-> Append(n, q)]
        new   == [k \in {kids[q] : q \in Quadrants} |->
                    QuadtreeNode(img, boxes[k[Len(k)] + 1], ns[n].depth + 1)]
    IN  [k \in DOMAIN ns \cup DOMAIN new |->
            IF k \in DOMAIN new THEN new[k]
            ELSE IF k = n
                 THEN [ns[n] EXCEPT !.childrens =
                          <<kids[0], kids[1], kids[2], kids[3]>>]
                 ELSE ns[k]]

\* __build_tree, line 383.
BuildSplit(n) ==
    /\ phase = "building"
    /\ n \in DOMAIN pc
    /\ pc[n] = "split"
    /\ nodes' = split(nodes, image, n)
    /\ pc' = [pc EXCEPT ![n] = "start"]
    /\ UNCHANGED <<image, phase, started, max_depth, lastOp>>

\* BuildStart going on to the joins without starting the last thread.
BuildStartSkipLast(n) ==
    /\ phase = "building"
    /\ n \in DOMAIN pc
    /\ pc[n] = "start"
    /\ LET child == nodes[n].childrens[started[n] + 1]
           last  == started[n] + 1 = Len(nodes[n].childrens)
       IN  /\ pc' = [k \in DOMAIN pc \cup (IF last THEN {} ELSE {child}) |->
                        IF k = child THEN "test"
                        ELSE IF k = n /\ last THEN "join"
                        ELSE pc[k]]
           /\ started' = [k \in DOMAIN started \cup (IF last THEN {} ELSE {child}) |->
                            IF k = child THEN 0
                            ELSE IF k = n THEN started[n] + 1
                            ELSE started[k]]
    /\ UNCHANGED <<image, phase, nodes, max_depth, lastOp>>

\* __build_tree, lines 385-391: one turn of the loop starts the thread that
\* runs __build_tree on the next child.
BuildStart(n) ==
    /\ phase = "building"
    /\ n \in DOMAIN pc
    /\ pc[n] = "start"
    /\ LET child == nodes[n].childrens[started[n] + 1]
       IN  /\ pc' = [k \in DOMAIN pc \cup {child} |->
                        IF k = child THEN "test"
                        ELSE IF k = n /\ started[n] + 1 = Len(nodes[n].childrens)
                             THEN "join"
                             ELSE pc[k]]
           /\ started' = [k \in DOMAIN started \cup {child} |->
                            IF k = child THEN 0
                            ELSE IF k = n THEN started[n] + 1
                            ELSE started[k]]
    /\ UNCHANGED <<image, phase, nodes, max_depth, lastOp>>

\* A thread has ended when its __build_tree call has returned.
Ended(n) == n \in DOMAIN pc /\ pc[n] = "done"

\* BuildJoin returning without the joins.
BuildJoinNoWait(n) ==
    /\ phase = "building"
    /\ n \in DOMAIN pc
    /\ pc[n] = "join"
    /\ pc' = [pc EXCEPT ![n] = "done"]
    /\ UNCHANGED <<image, phase, nodes, started, max_depth, lastOp>>

\* __build_tree, lines 393-396: join every started thread, then return.
BuildJoin(n) ==
    /\ phase = "building"
    /\ n \in DOMAIN pc
    /\ pc[n] = "join"
    /\ \A i \in 1 .. started[n] : Ended(nodes[n].childrens[i])
    /\ pc' = [pc EXCEPT ![n] = "done"]
    /\ UNCHANGED <<image, phase, nodes, started, max_depth, lastOp>>

\* QuadTree.__init__ returns when the root's __build_tree call has.
QuadTreeReturn ==
    /\ phase = "building"
    /\ pc[Root] = "done"
    /\ phase' = "built"
    /\ UNCHANGED <<image, nodes, pc, started, max_depth, lastOp>>

-----------------------------------------------------------------------------
(* The point operations of QuadtreeNode                                    *)

\* The append of insert_point also taking the leaf mark off the node, as an
\* insertion that prepares a split would.
AppendPointUnleaf(ns, n, point) ==
    [ns EXCEPT ![n].node_points = Append(@, point), ![n].is_leaf = FALSE]

\* self.node_points.append(point)
AppendPoint(ns, n, point) ==
    [ns EXCEPT ![n].node_points = Append(@, point)]

\* insert_point sending a coordinate equal to the centre to the lesser side.
RECURSIVE insert_point_tie_low(_, _, _)
insert_point_tie_low(ns, n, point) ==
    LET c  == ns[n].node_center_point
        ch == ns[n].childrens
    IN  IF ch # None
        THEN IF /\ point.x_coordinate <= c.x_coordinate
                /\ point.y_coordinate <= c.y_coordinate
             THEN insert_point_tie_low(ns, ch[1], point)
             ELSE IF /\ point.x_coordinate > c.x_coordinate
                     /\ point.y_coordinate <= c.y_coordinate
             THEN insert_point_tie_low(ns, ch[2], point)
             ELSE LET ns1 == IF /\ point.x_coordinate <= c.x_coordinate
                                /\ point.y_coordinate > c.y_coordinate
                             THEN insert_point_tie_low(ns, ch[3], point)
                             ELSE ns
                      ns2 == IF /\ point.x_coordinate > c.x_coordinate
                                /\ point.y_coordinate > c.y_coordinate
                             THEN insert_point_tie_low(ns1, ch[4], point)
                             ELSE ns1
                  IN  AppendPoint(ns2, n, point)
        ELSE AppendPoint(ns, n, point)

\* QuadtreeNode.insert_point: the two upper quadrants return the child's
\* call, the two lower ones call the child and go on to the append.
RECURSIVE insert_point(_, _, _)
insert_point(ns, n, point) ==
    LET c  == ns[n].node_center_point
        ch == ns[n].childrens
    IN  IF ch # None
        THEN IF /\ point.x_coordinate < c.x_coordinate
                /\ point.y_coordinate < c.y_coordinate
             THEN insert_point(ns, ch[1], point)
             ELSE IF /\ point.x_coordinate >= c.x_coordinate
                     /\ point.y_coordinate < c.y_coordinate
             THEN insert_point(ns, ch[2], point)
             ELSE LET ns1 == IF /\ point.x_coordinate < c.x_coordinate
                                /\ point.y_coordinate >= c.y_coordinate
                             THEN insert_point(ns, ch[3], point)
                             ELSE ns
                      ns2 == IF /\ point.x_coordinate >= c.x_coordinate
                                /\ point.y_coordinate >= c.y_coordinate
                             THEN insert_point(ns1, ch[4], point)
                             ELSE ns1
                  IN  AppendPoint(ns2, n, point)
        ELSE AppendPoint(ns, n, point)

\* find_node sending a coordinate equal to the centre to the lesser side.
RECURSIVE find_node_tie_low(_, _, _, _)
find_node_tie_low(ns, n, point, search_list) ==
    LET c    == ns[n].node_center_point
        ch   == ns[n].childrens
        list == Append(search_list, n)
        q    == (IF point.x_coordinate <= c.x_coordinate THEN 1 ELSE 2)
                + (IF point.y_coordinate <= c.y_coordinate THEN 0 ELSE 2)
    IN  IF ch # None THEN find_node_tie_low(ns, ch[q], point, list)
        ELSE <<n, list>>

\* QuadtreeNode.find_node: <<node, search_list>>.  split fills childrens with
\* four nodes, so the "is not None" tests on a child are always true.
RECURSIVE find_node(_, _, _, _)
find_node(ns, n, point, search_list) ==
    LET c    == ns[n].node_center_point
        ch   == ns[n].childrens
        list == Append(IF search_list = None \/ Len(search_list) = 0
                       THEN <<>> ELSE search_list, n)
    IN  IF ch # None
        THEN IF /\ point.x_coordinate < c.x_coordinate
                /\ point.y_coordinate < c.y_coordinate
             THEN find_node(ns, ch[1], point, list)
             ELSE IF /\ point.x_coordinate >= c.x_coordinate
                     /\ point.y_coordinate < c.y_coordinate
             THEN find_node(ns, ch[2], point, list)
             ELSE IF /\ point.x_coordinate < c.x_coordinate
                     /\ point.y_coordinate >= c.y_coordinate
             THEN find_node(ns, ch[3], point, list)
             ELSE IF /\ point.x_coordinate >= c.x_coordinate
                     /\ point.y_coordinate >= c.y_coordinate
             THEN find_node(ns, ch[4], point, list)
             ELSE <<n, list>>
        ELSE <<n, list>>

\* list.remove(value): drops the first item that is value or equals it.
ListRemove(list, value) ==
    LET hits == { j \in 1 .. Len(list) :
                    list[j] = value \/ PointEq(list[j], value) }
        first == CHOOSE j \in hits : \A k \in hits : j <= k
    IN  IF hits = {} THEN list
        ELSE [j \in 1 .. Len(list) - 1 |->
                IF j < first THEN list[j] ELSE list[j + 1]]

\* The for loop of remove_point, which walks the list by index while the
\* body removes from it.
RECURSIVE RemoveLoop(_, _, _)
RemoveLoop(list, i, delete_point) ==
    IF i > Len(list) THEN list
    ELSE IF PointEq(list[i], delete_point)
         THEN RemoveLoop(ListRemove(list, list[i]), i + 1, delete_point)
         ELSE RemoveLoop(list, i + 1, delete_point)

\* QuadtreeNode.remove_point
remove_point(ns, n, delete_point) ==
    LET current_node == find_node(ns, n, delete_point, None)[1]
    IN  [ns EXCEPT ![current_node].node_points =
            RemoveLoop(@, 1, delete_point)]

\* QuadtreeNode.find_node_contain_point
find_node_contain_point(ns, n, search_point) ==
    find_node(ns, n, search_point, None)[1]

-----------------------------------------------------------------------------
(* Leaves by depth                                                         *)

\* get_leaf_nodes_recursion going down to the leaves whatever the depth.
RECURSIVE leaves_only_recursion(_, _, _, _)
leaves_only_recursion(ns, n, depth, leaf_nodes) ==
    IF ns[n].is_leaf = TRUE
    THEN Append(leaf_nodes, n)
    ELSE IF ns[n].childrens # None
    THEN LET ch == ns[n].childrens
             l1 == leaves_only_recursion(ns, ch[1], depth, leaf_nodes)
             l2 == leaves_only_recursion(ns, ch[2], depth, l1)
             l3 == leaves_only_recursion(ns, ch[3], depth, l2)
         IN  leaves_only_recursion(ns, ch[4], depth, l3)
    ELSE leaf_nodes

\* QuadTree.get_leaf_nodes_recursion: leaf_nodes after the call.
RECURSIVE get_leaf_nodes_recursion(_, _, _, _)
get_leaf_nodes_recursion(ns, n, depth, leaf_nodes) ==
    IF ns[n].is_leaf = TRUE \/ ns[n].depth = depth
    THEN Append(leaf_nodes, n)
    ELSE IF ns[n].childrens # None
    THEN LET ch == ns[n].childrens
             l1 == get_leaf_nodes_recursion(ns, ch[1], depth, leaf_nodes)
             l2 == get_leaf_nodes_recursion(ns, ch[2], depth, l1)
             l3 == get_leaf_nodes_recursion(ns, ch[3], depth, l2)
         IN  get_leaf_nodes_recursion(ns, ch[4], depth, l3)
    ELSE leaf_nodes

\* get_leaf_nodes clamping the depth to __max_depth instead of raising.
get_leaf_nodes_clamp(ns, max, depth) ==
    [raised |-> FALSE,
     list |-> get_leaf_nodes_recursion(ns, Root,
                                       IF depth > max THEN max ELSE depth, <<>>)]

\* QuadTree.get_leaf_nodes: whether it raises, and the list it returns.
get_leaf_nodes(ns, max, depth) ==
    IF depth > max
    THEN [raised |-> TRUE, list |-> <<>>]
    ELSE [raised |-> FALSE,
          list |-> get_leaf_nodes_recursion(ns, Root, depth, <<>>)]

-----------------------------------------------------------------------------
(* Rendering                                                               *)

\* create_image of work_with_images.py: whether get_leaf_nodes raises, and
\* the rectangles drawn, each the border_box and average_color of a node.
create_image(ns, max, level) ==
    LET r == get_leaf_nodes(ns, max, level)
    IN  [raised |-> r.raised,
         list |-> [i \in 1 .. Len(r.list) |->
                     <<ns[r.list[i]].border_box, ns[r.list[i]].average_color>>]]

\* The levels compression_start calls create_image with: the requested level
\* and the frames range(MAX_DEPTH + 1) of the animation.
Levels == 0 .. MAX_DEPTH

-----------------------------------------------------------------------------
(* Calls on the built tree                                                 *)

\* The depths get_leaf_nodes is called with.
Depths == 0 .. MAX_DEPTH + 1

InsertPoint(point) ==
    /\ phase = "built"
    /\ \A n \in DOMAIN nodes : Len(nodes[n].node_points) < MaxPoints
    /\ nodes' = insert_point(nodes, Root, point)
    /\ lastOp' = [NoOp EXCEPT !.op = "insert_point", !.point = point]
    /\ UNCHANGED <<image, phase, pc, started, max_depth>>

FindNode(point) ==
    /\ phase = "built"
    /\ LET r == find_node(nodes, Root, point, None)
       IN  lastOp' = [NoOp EXCEPT !.op = "find_node", !.point = point,
                                  !.node = r[1], !.list = r[2]]
    /\ UNCHANGED <<image, phase, nodes, pc, started, max_depth>>

RemovePoint(point) ==
    /\ phase = "built"
    /\ nodes' = remove_point(nodes, Root, point)
    /\ lastOp' = [NoOp EXCEPT !.op = "remove_point", !.point = point]
    /\ UNCHANGED <<image, phase, pc, started, max_depth>>

FindNodeContainPoint(point) ==
    /\ phase = "built"
    /\ lastOp' = [NoOp EXCEPT !.op = "find_node_contain_point",
                              !.point = point,
                              !.node = find_node_contain_point(nodes, Root, point)]
    /\ UNCHANGED <<image, phase, nodes, pc, started, max_depth>>

GetLeafNodes(depth) ==
    /\ phase = "built"
    /\ LET r == get_leaf_nodes(nodes, max_depth, depth)
       IN  lastOp' = [NoOp EXCEPT !.op = "get_leaf_nodes", !.depth = depth,
                                  !.raised = r.raised, !.list = r.list]
    /\ UNCHANGED <<image, phase, nodes, pc, started, max_depth>>

\* compression_start, a call of create_image on the tree it has built.
CreateImage(level) ==
    /\ phase = "built"
    /\ LET r == create_image(nodes, max_depth, level)
       IN  lastOp' = [NoOp EXCEPT !.op = "create_image", !.depth = level,
                                  !.raised = r.raised, !.list = r.list]
    /\ UNCHANGED <<image, phase, nodes, pc, started, max_depth>>

Next ==
    \/ QuadTreeInit
    \/ \E n \in DOMAIN nodes : BuildTest(n)
    \/ \E n \in DOMAIN nodes : BuildStore(n)
    \/ \E n \in DOMAIN nodes : BuildMark(n)
    \/ \E n \in DOMAIN nodes : BuildSplit(n)
    \/ \E n \in DOMAIN nodes : BuildStart(n)
    \/ \E n \in DOMAIN nodes : BuildJoin(n)
    \/ QuadTreeReturn
    \/ \E point \in Points : InsertPoint(point)
    \/ \E point \in Points : FindNode(point)
    \/ \E point \in Points : RemovePoint(point)
    \/ \E point \in Points : FindNodeContainPoint(point)
    \/ \E depth \in Depths : GetLeafNodes(depth)
    \/ \E level \in Levels : CreateImage(level)

Spec == Init /\ [][Next]_vars

-----------------------------------------------------------------------------
(* Construction under a fair scheduler                                     *)

\* The steps of the construction: of QuadTree.__init__ and of the threads.
NextBuild ==
    \/ QuadTreeInit
    \/ \E n \in DOMAIN nodes : BuildTest(n)
    \/ \E n \in DOMAIN nodes : BuildStore(n)
    \/ \E n \in DOMAIN nodes : BuildMark(n)
    \/ \E n \in DOMAIN nodes : BuildSplit(n)
    \/ \E n \in DOMAIN nodes : BuildStart(n)
    \/ \E n \in DOMAIN nodes : BuildJoin(n)
    \/ QuadTreeReturn

\* The scheduler runs some thread that can take a step.
SpecBuild == Init /\ [][NextBuild]_vars /\ WF_vars(NextBuild)

-----------------------------------------------------------------------------
(* Construction down to MAX_DEPTH                                          *)

\* Most build threads that run at once between their start and the end of
\* their call or the start of their own threads.
MaxRunning == 2

\* The regions along the branch that takes quadrant q at every level, down to
\* depth MAX_DEPTH.
Chain(q) == { [i \in 1 .. k |-> q] : k \in 0 .. MAX_DEPTH }

\* An image whose detail does not fade along the bottom-right branch: every
\* region on the branch has an error above the threshold, every other region
\* has exactly the threshold.
DeepImages ==
    { Image(WholeBox, Chain(3), ERROR_THRESHOLD) }

InitDeep ==
    /\ image \in DeepImages
    /\ phase = "new"
    /\ nodes = <<>>
    /\ pc = <<>>
    /\ started = <<>>
    /\ max_depth = 0
    /\ lastOp = NoOp

Running == { n \in DOMAIN pc : pc[n] \in {"test", "store", "mark", "split"} }

\* The construction alone, under schedules that let at most MaxRunning
\* threads run at once: a started thread runs to its end, or to the start of
\* its own threads, before further ones are started.
NextDeep ==
    \/ QuadTreeInit
    \/ \E n \in DOMAIN nodes : BuildTest(n)
    \/ \E n \in DOMAIN nodes : BuildStore(n)
    \/ \E n \in DOMAIN nodes : BuildMark(n)
    \/ \E n \in DOMAIN nodes : BuildSplit(n)
    \/ \E n \in DOMAIN nodes : Cardinality(Running) < MaxRunning /\ BuildStart(n)
    \/ \E n \in DOMAIN nodes : BuildJoin(n)
    \/ QuadTreeReturn

SpecDeep == InitDeep /\ [][NextDeep]_vars

-----------------------------------------------------------------------------
(* Colour statistics                                                       *)

\* Intensity levels of one channel of the histogram.
NumBins == 256

\* Largest pixel count of one bin.
MaxCount == 2

RECURSIVE Gcd(_, _)
Gcd(a, b) == IF b = 0 THEN a ELSE Gcd(b, a % b)

\* The number num / den (den > 0) in lowest terms; root is 1.  With root 2
\* the record stands for the square root of num / den.
Ratio(num, den) ==
    LET g == Gcd(num, den)
    IN  [num |-> num \div g, den |-> den \div g, root |-> 1]

RECURSIVE RootBetween(_, _, _)
\* The largest r of lo .. hi with r * r <= a, found by halving the interval.
RootBetween(a, lo, hi) ==
    IF lo = hi THEN lo
    ELSE LET mid == (lo + hi + 1) \div 2
         IN  IF mid <= a \div mid
             THEN RootBetween(a, mid, hi)
             ELSE RootBetween(a, lo, mid - 1)

\* The whole part of a ** 0.5.
IntRoot(a) == RootBetween(a, 0, a)

IsSquare(a) == IntRoot(a) * IntRoot(a) = a

\* r ** 0.5 of a non-negative r: the number itself when num and den are
\* squares, else the root left standing.
Sqrt(r) ==
    IF IsSquare(r.num) /\ IsSquare(r.den)
    THEN Ratio(IntRoot(r.num), IntRoot(r.den))
    ELSE [r EXCEPT !.root = 2]

RECURSIVE SumRange(_, _, _)
\* The sum of the terms at the places lo .. hi, summed by halves.
SumRange(terms, lo, hi) ==
    IF lo > hi THEN 0
    ELSE IF lo = hi THEN terms[lo]
    ELSE LET mid == (lo + hi) \div 2
         IN  SumRange(terms, lo, mid) + SumRange(terms, mid + 1, hi)

\* sum(...) of a generator: the sum of all the terms.
SumOver(terms) == SumRange(terms, 1, Len(terms))

\* enumerate(hist): the index, from 0, of the item at place p.
Index(p) == p - 1

\* weighted_average counting the bins from 1.
weighted_average_from_one(hist) ==
    LET Places == 1 .. Len(hist)
        total == SumOver([p \in Places |-> hist[p]])
        moment == SumOver([p \in Places |-> (Index(p) + 1) * hist[p]])
        Dev(i, x) == x * (moment - (i + 1) * total) * (moment - (i + 1) * total)
        spread == SumOver([p \in Places |-> Dev(Index(p), hist[p])])
    IN  IF total > 0
        THEN [value |-> Ratio(moment, total),
              error |-> Sqrt(Ratio(spread, total * total * total))]
        ELSE [value |-> Ratio(0, 1), error |-> Ratio(0, 1)]

\* weighted_average: value = sum(i * x) / total, and error the square root of
\* sum(x * (value - i) ** 2) / total, which is
\* sum(x * (moment - i * total) ** 2) / total ** 3.
weighted_average(hist) ==
    LET Places == 1 .. Len(hist)
        total == SumOver([p \in Places |-> hist[p]])
        moment == SumOver([p \in Places |-> Index(p) * hist[p]])
        Dev(i, x) == x * (moment - i * total) * (moment - i * total)
        spread == SumOver([p \in Places |-> Dev(Index(p), hist[p])])
    IN  IF total > 0
        THEN [value |-> Ratio(moment, total),
              error |-> Sqrt(Ratio(spread, total * total * total))]
        ELSE [value |-> Ratio(0, 1), error |-> Ratio(0, 1)]

\* The histograms of one channel handed to weighted_average: empty, all
\* pixels at one level, or pixels at two levels.
Histograms ==
    { [i \in 1 .. NumBins |-> 0] }
    \cup { [i \in 1 .. NumBins |-> IF i = k + 1 THEN n ELSE 0] :
            k \in 0 .. NumBins - 1, n \in 1 .. MaxCount }
    \cup { [i \in 1 .. NumBins |-> IF i = 1 THEN n ELSE IF i = k + 1 THEN 1 ELSE 0] :
            k \in {1, 2, NumBins - 1}, n \in 1 .. MaxCount }

\* A histogram of Histograms is at hand, to be given to weighted_average.
InitWA ==
    /\ image = Image(WholeBox, {}, 0)
    /\ phase = "new"
    /\ nodes = <<>>
    /\ pc = <<>>
    /\ started = <<>>
    /\ max_depth = 0
    /\ lastOp \in { [op |-> "histogram", hist |-> hist] : hist \in Histograms }

\* value, error = weighted_average(hist)
WeightedAverage ==
    /\ lastOp.op = "histogram"
    /\ LET r == weighted_average(lastOp.hist)
       IN  lastOp' = [op |-> "weighted_average", hist |-> lastOp.hist,
                      value |-> r.value, error |-> r.error]
    /\ UNCHANGED <<image, phase, nodes, pc, started, max_depth>>

NextWA == WeightedAverage

\* weighted_average applied to the histograms of Histograms.
SpecWA == InitWA /\ [][NextWA]_vars

-----------------------------------------------------------------------------
(* The command: main.py and compression_start                              *)

\* args.file[len(args.file) - 3::] of the files given: the last three
\* characters of the name ("peg" for a name ending in jpeg).
Extensions == {"jpg", "png", "peg", "txt"}

\* The values given to --level.
LevelArgs == 0 .. MAX_DEPTH + 1

\* check_fields: the file exists with a known ending, and the level is in
\* range(1, 9).
check_fields(exists, extension, level) ==
    IF ~exists \/ extension \notin {"jpg", "png", "jpeg"}
    THEN FALSE
    ELSE IF level \notin 1 .. 9 - 1
    THEN FALSE
    ELSE TRUE

\* compression_start on the tree QuadTree(original_image) has built: the
\* depths given to create_image one after the other, the requested level and
\* then, for a gif, range(MAX_DEPTH + 1), up to the first call that raises.
compression_start(ns, max, level, gif) ==
    LET frames == IF gif THEN [i \in 1 .. MAX_DEPTH + 1 |-> i - 1] ELSE <<>>
        calls  == <<level>> \o frames
        bad    == { i \in 1 .. Len(calls) : create_image(ns, max, calls[i]).raised }
    IN  IF bad = {}
        THEN [raised |-> FALSE, depths |-> calls]
        ELSE [raised |-> TRUE,
              depths |-> SubSeq(calls, 1, CHOOSE i \in bad : \A j \in bad : i <= j)]

\* parse_args with arguments check_fields turns down: nothing is built.
ParseArgsRejects(exists, extension, level) ==
    /\ phase = "new"
    /\ ~check_fields(exists, extension, level)
    /\ phase' = "rejected"
    /\ lastOp' = [op |-> "parse_args", exists |-> exists,
                  extension |-> extension, level |-> level]
    /\ UNCHANGED <<image, nodes, pc, started, max_depth>>

\* parse_args with arguments check_fields accepts: compression_start from
\* the return of QuadTree(original_image) on.
CompressionStart(exists, extension, level, gif) ==
    /\ phase = "built"
    /\ check_fields(exists, extension, level)
    /\ LET r == compression_start(nodes, max_depth, level, gif)
       IN  lastOp' = [op |-> "compression_start", level |-> level, gif |-> gif,
                      raised |-> r.raised, depths |-> r.depths]
    /\ UNCHANGED <<image, phase, nodes, pc, started, max_depth>>

NextCore ==
    \/ \E exists \in BOOLEAN, extension \in Extensions, level \in LevelArgs :
          ParseArgsRejects(exists, extension, level)
    \/ QuadTreeInit
    \/ \E n \in DOMAIN nodes : BuildTest(n)
    \/ \E n \in DOMAIN nodes : BuildStore(n)
    \/ \E n \in DOMAIN nodes : BuildMark(n)
    \/ \E n \in DOMAIN nodes : BuildSplit(n)
    \/ \E n \in DOMAIN nodes : BuildStart(n)
    \/ \E n \in DOMAIN nodes : BuildJoin(n)
    \/ QuadTreeReturn
    \/ \E exists \in BOOLEAN, extension \in Extensions, level \in LevelArgs,
          gif \in BOOLEAN :
          CompressionStart(exists, extension, level, gif)

\* One run of the command.
SpecCore == Init /\ [][NextCore]_vars

-----------------------------------------------------------------------------
(* Properties                                                              *)

Leaves == { n \in DOMAIN nodes : nodes[n].is_leaf }

Max(S) == CHOOSE d \in S : \A e \in S : d >= e

Elems(list) == { list[i] : i \in 1 .. Len(list) }

Occurrences(list, v) == Cardinality({ i \in 1 .. Len(list) : list[i] = v })

\* The half-open region of a box holds the point.
InRegion(point, box) ==
    /\ box[1] <= point.x_coordinate /\ point.x_coordinate < box[3]
    /\ box[2] <= point.y_coordinate /\ point.y_coordinate < box[4]

Area(box) == (box[3] - box[1]) * (box[4] - box[2])

Disjoint(a, b) ==
    \/ a[3] <= b[1] \/ b[3] <= a[1] \/ a[4] <= b[2] \/ b[4] <= a[2]
    \/ Area(a) = 0 \/ Area(b) = 0

Within(a, b) ==
    /\ b[1] <= a[1] /\ a[3] <= b[3] /\ b[2] <= a[2] /\ a[4] <= b[4]

RECURSIVE SumArea(_)
SumArea(list) ==
    IF list = <<>> THEN 0
    ELSE Area(nodes[Head(list)].border_box) + SumArea(Tail(list))

\* The regions of the listed nodes are pairwise disjoint and their union is
\* the box.
Partitions(list, box) ==
    /\ \A i, j \in 1 .. Len(list) :
          i # j => Disjoint(nodes[list[i]].border_box, nodes[list[j]].border_box)
    /\ \A i \in 1 .. Len(list) : Within(nodes[list[i]].border_box, box)
    /\ SumArea(list) = Area(box)

\* n is a leaf, or every one of its four children has been built to the end
\* by a call that has returned.
RECURSIVE Complete(_)
Complete(n) ==
    \/ nodes[n].is_leaf
    \/ /\ Len(nodes[n].childrens) = 4
       /\ \A i \in 1 .. 4 :
            LET child == nodes[n].childrens[i]
            IN  child \in DOMAIN nodes /\ Ended(child) /\ Complete(child)

ProperAncestors(n) == { SubSeq(n, 1, k) : k \in 0 .. Len(n) - 1 }

Included(n, depth) == nodes[n].is_leaf \/ nodes[n].depth = depth

\* The nodes that are the first along their branch to be a leaf or at depth.
Cut(depth) ==
    { n \in DOMAIN nodes :
        Included(n, depth) /\ \A a \in ProperAncestors(n) : ~Included(a, depth) }

\* a comes before b in the pre-order of the tree.
PreOrderBefore(a, b) ==
    \/ a \in ProperAncestors(b)
    \/ \E k \in 1 .. Len(a) :
          /\ k <= Len(b)
          /\ SubSeq(a, 1, k - 1) = SubSeq(b, 1, k - 1)
          /\ a[k] < b[k]

\* A step that is a call of op on the built tree.
Called(op) == lastOp'.op = op /\ <<nodes, lastOp>>' # <<nodes, lastOp>>

\* C1: when the construction returns, max_depth is the greatest depth of a
\* node marked as leaf, whatever the interleaving of the build threads.
C1_MaxDepthIsDeepestLeaf ==
    phase = "built" =>
        max_depth = Max({ nodes[n].depth : n \in Leaves })

\* C2: no step of the construction lowers max_depth.
C2_MaxDepthNeverDecreases == [][max_depth' >= max_depth]_vars

\* C3: a build call that has returned is on a leaf or on a node whose four
\* children's build calls have returned with their subtrees complete; once
\* the construction has returned this holds of every node.
C3_ForkJoin ==
    /\ \A n \in DOMAIN nodes : Ended(n) => Complete(n)
    /\ phase = "built" => \A n \in DOMAIN nodes : Complete(n)

C3_Witness ==
    /\ phase = "built"
    /\ \E n \in DOMAIN nodes : Len(n) = 2

\* C4: get_leaf_nodes raises, and returns no list, for every depth above
\* max_depth, and does not raise for a depth in 0 .. max_depth.
C4_InvalidDepth ==
    lastOp.op = "get_leaf_nodes" =>
        /\ lastOp.depth > max_depth => lastOp.raised /\ lastOp.list = <<>>
        /\ (0 <= lastOp.depth /\ lastOp.depth <= max_depth) => ~lastOp.raised

C4_Witness ==
    /\ lastOp.op = "get_leaf_nodes"
    /\ lastOp.raised
    /\ max_depth > 0
    /\ lastOp.depth = max_depth + 1

\* C5: the regions of the nodes get_leaf_nodes returns for a depth in
\* 0 .. max_depth are pairwise disjoint and their union is the whole image,
\* (0, 0, width, height).
C5_LeavesCoverImage ==
    (lastOp.op = "get_leaf_nodes" /\ ~lastOp.raised) =>
        Partitions(lastOp.list, FullBox(image.size[1], image.size[2]))

\* C6: get_leaf_nodes(max_depth) returns every node marked as leaf exactly
\* once and nothing else, and the returned nodes have no children.
C6_LeavesAtMaxDepth ==
    (lastOp.op = "get_leaf_nodes" /\ lastOp.depth = max_depth) =>
        /\ ~lastOp.raised
        /\ Elems(lastOp.list) = Leaves
        /\ Len(lastOp.list) = Cardinality(Leaves)
        /\ \A n \in Elems(lastOp.list) :
              nodes[n].is_leaf /\ nodes[n].childrens = None

\* C7: for a valid depth get_leaf_nodes returns, in pre-order, exactly the
\* nodes that are a leaf or at that depth and have no proper ancestor that
\* is; no returned node descends from another.
C7_CutInPreOrder ==
    (lastOp.op = "get_leaf_nodes" /\ ~lastOp.raised) =>
        /\ Elems(lastOp.list) = Cut(lastOp.depth)
        /\ Len(lastOp.list) = Cardinality(Cut(lastOp.depth))
        /\ \A i, j \in 1 .. Len(lastOp.list) :
              i < j => PreOrderBefore(lastOp.list[i], lastOp.list[j])
        /\ \A a, b \in Elems(lastOp.list) : a \notin ProperAncestors(b)

C7_Witness ==
    /\ lastOp.op = "get_leaf_nodes"
    /\ ~lastOp.raised
    /\ lastOp.depth < max_depth
    /\ Len(lastOp.list) > 1
    /\ \E n \in Elems(lastOp.list) : ~nodes[n].is_leaf
    /\ \E n \in Elems(lastOp.list) : nodes[n].is_leaf

\* C8: insert_point on the root appends the point to the node_points of every
\* node on the way from the root to the terminal node of the point.
C8_InsertOnWholePath ==
    [][Called("insert_point") =>
        \A n \in Elems(find_node(nodes, Root, lastOp'.point, None)[2]) :
            nodes'[n].node_points = Append(nodes[n].node_points, lastOp'.point)
      ]_vars

\* C9: for a point inside the root's region that has been inserted,
\* find_node returns a node without children whose region holds the point,
\* and the list of the nodes from the root to it, each the parent of the next.
C9_FindTerminal ==
    ( /\ lastOp.op = "find_node"
      /\ InRegion(lastOp.point, nodes[Root].border_box)
      /\ \E n \in DOMAIN nodes : lastOp.point \in Elems(nodes[n].node_points) )
    =>
        /\ lastOp.node \in DOMAIN nodes
        /\ nodes[lastOp.node].childrens = None
        /\ InRegion(lastOp.point, nodes[lastOp.node].border_box)
        /\ Len(lastOp.list) >= 1
        /\ lastOp.list[1] = Root
        /\ lastOp.list[Len(lastOp.list)] = lastOp.node
        /\ \A i \in 1 .. Len(lastOp.list) - 1 :
              lastOp.list[i + 1] \in Elems(nodes[lastOp.list[i]].childrens)

C9_Witness ==
    /\ lastOp.op = "find_node"
    /\ InRegion(lastOp.point, nodes[Root].border_box)
    /\ lastOp.point \in Elems(nodes[lastOp.node].node_points)
    /\ lastOp.point = nodes[Root].node_center_point
    /\ Len(lastOp.list) = 3

\* C10: after remove_point of a point that is once in the node_points of its
\* terminal node, that list holds no point with the same coordinates.
C10_RemoveDropsPoint ==
    [][\A t \in DOMAIN nodes :
          ( /\ Called("remove_point")
            /\ t = find_node(nodes, Root, lastOp'.point, None)[1]
            /\ Occurrences(nodes[t].node_points, lastOp'.point) = 1 )
          => Occurrences(nodes'[t].node_points, lastOp'.point) = 0
      ]_vars

\* The list without its i-th item.
RemoveAt(list, i) ==
    [j \in 1 .. Len(list) - 1 |-> IF j < i THEN list[j] ELSE list[j + 1]]

\* C11: remove_point changes the node_points of the terminal node of the
\* point alone, and there removes at most one point, whose coordinates are
\* both those of the point; every other list is left as it was.
C11_RemoveFrame ==
    [][Called("remove_point") =>
        LET P == lastOp'.point
            t == find_node(nodes, Root, P, None)[1]
            before == nodes[t].node_points
            after == nodes'[t].node_points
        IN  /\ DOMAIN nodes' = DOMAIN nodes
            /\ \A n \in DOMAIN nodes \ {t} :
                  nodes'[n].node_points = nodes[n].node_points
            /\ \/ after = before
               \/ \E i \in 1 .. Len(before) :
                     /\ before[i].x_coordinate = P.x_coordinate
                     /\ before[i].y_coordinate = P.y_coordinate
                     /\ after = RemoveAt(before, i)
      ]_vars

\* C12: the regions of the four children of a node are pairwise disjoint,
\* their union is the node's region and their areas sum to its area; they are
\* the top-left, top-right, bottom-left and bottom-right parts cut at the
\* node's centre.
C12_ChildrenPartition ==
    \A n \in DOMAIN nodes :
        nodes[n].childrens # None =>
            LET ch == nodes[n].childrens
                b  == nodes[n].border_box
                c  == nodes[n].node_center_point
                cb == [i \in 1 .. 4 |-> nodes[ch[i]].border_box]
            IN  /\ Len(ch) = 4
                /\ Partitions(ch, b)
                /\ cb[1][1] = b[1] /\ cb[1][2] = b[2]
                /\ cb[2][3] = b[3] /\ cb[2][2] = b[2]
                /\ cb[3][1] = b[1] /\ cb[3][4] = b[4]
                /\ cb[4][3] = b[3] /\ cb[4][4] = b[4]
                /\ \A i \in 1 .. 4 :
                      \/ cb[i][1] = c.x_coordinate \/ cb[i][3] = c.x_coordinate
                /\ \A i \in 1 .. 4 :
                      \/ cb[i][2] = c.y_coordinate \/ cb[i][4] = c.y_coordinate

C12_Witness ==
    \E n \in DOMAIN nodes :
        /\ Len(n) = 1
        /\ nodes[n].childrens # None
        /\ Area(nodes[n].border_box) > 0

\* C13: the root has depth 0, every child has the depth of its parent plus
\* one, and no node is deeper than MAX_DEPTH.
C13_Depths ==
    /\ Root \in DOMAIN nodes => nodes[Root].depth = 0
    /\ \A n \in DOMAIN nodes :
          /\ nodes[n].depth <= MAX_DEPTH
          /\ \A i \in 1 .. Len(nodes[n].childrens) :
                nodes[nodes[n].childrens[i]].depth = nodes[n].depth + 1

C13_Witness ==
    \E n \in DOMAIN nodes :
        /\ nodes[n].depth = MAX_DEPTH
        /\ nodes[n].is_leaf
        /\ nodes[n].error > ERROR_THRESHOLD

\* C14: in every state of the construction and of the later calls, a node
\* has no children or exactly four, and no node is both marked as leaf and
\* has children.
C14_LeafOrFourChildren ==
    \A n \in DOMAIN nodes :
        /\ Len(nodes[n].childrens) \in {0, 4}
        /\ ~(nodes[n].is_leaf /\ nodes[n].childrens # None)

C14_Witness ==
    /\ lastOp.op = "remove_point"
    /\ \E n \in DOMAIN nodes :
          /\ Len(nodes[n].childrens) = 4
          /\ nodes[n].node_points # <<>>
    /\ \E n \in DOMAIN nodes : nodes[n].is_leaf /\ nodes[n].node_points # <<>>

\* The stopping condition of the build on the node.
Stops(n) ==
    nodes[n].depth >= MAX_DEPTH \/ nodes[n].error <= ERROR_THRESHOLD

\* C15: after the construction a node is marked as leaf, and has no
\* children, exactly when its depth is at least MAX_DEPTH or its error at
\* most ERROR_THRESHOLD, and every other node has four children; during the
\* construction no other node is marked and no such node is split.
C15_LeafIffStops ==
    /\ \A n \in DOMAIN nodes :
          /\ nodes[n].is_leaf => Stops(n) /\ nodes[n].childrens = None
          /\ nodes[n].childrens # None => ~Stops(n)
    /\ phase = "built" =>
          \A n \in DOMAIN nodes :
              /\ nodes[n].is_leaf <=> Stops(n)
              /\ ~nodes[n].is_leaf => Len(nodes[n].childrens) = 4

C15_Witness ==
    /\ phase = "built"
    /\ \E n \in Leaves :
          nodes[n].depth = MAX_DEPTH /\ nodes[n].error > ERROR_THRESHOLD
    /\ \E n \in Leaves :
          nodes[n].depth < MAX_DEPTH /\ nodes[n].error = ERROR_THRESHOLD
    /\ \E n \in DOMAIN nodes :
          nodes[n].depth = MAX_DEPTH - 1 /\ Len(nodes[n].childrens) = 4

\* An image of one flat colour: no region varies, and getbbox is the whole
\* image or, for black, None.
Uniform(img) ==
    /\ img.detail = {}
    /\ img.flat = 0
    /\ img.bbox \in {WholeBox, None}

\* C16: for an image of one flat colour the construction yields the root
\* alone, marked as leaf at depth 0, and the rendering at any level >= 0
\* draws that single leaf.
C16_UniformImage ==
    Uniform(image) =>
        /\ phase # "error"
        /\ phase = "built" =>
              /\ DOMAIN nodes = {Root}
              /\ nodes[Root].is_leaf
              /\ nodes[Root].depth = 0
        /\ lastOp.op = "create_image" =>
              /\ ~lastOp.raised
              /\ lastOp.list =
                    << <<nodes[Root].border_box, nodes[Root].average_color>> >>

\* C17: weighted_average of a histogram whose pixels are all at one level k
\* returns value k and error 0; of an empty histogram, value 0 and error 0.
C17_SingleLevel ==
    lastOp.op = "weighted_average" =>
        /\ \A k \in 0 .. NumBins - 1 :
              ( /\ lastOp.hist[k + 1] > 0
                /\ \A j \in 1 .. NumBins : j # k + 1 => lastOp.hist[j] = 0 )
              => /\ lastOp.value = [num |-> k, den |-> 1, root |-> 1]
                 /\ lastOp.error = [num |-> 0, den |-> 1, root |-> 1]
        /\ (\A j \in 1 .. NumBins : lastOp.hist[j] = 0)
              => /\ lastOp.value = [num |-> 0, den |-> 1, root |-> 1]
                 /\ lastOp.error = [num |-> 0, den |-> 1, root |-> 1]

C17_Witness ==
    /\ lastOp.op = "weighted_average"
    /\ lastOp.hist[NumBins] = MaxCount
    /\ \A j \in 1 .. NumBins - 1 : lastOp.hist[j] = 0
    /\ lastOp.value.num = NumBins - 1

\* C18: the construction creates the root at depth 0 over the full image,
\* (0, 0, width, height), whatever the image, black borders included.
C18_RootOverFullImage ==
    phase # "new" =>
        /\ Root \in DOMAIN nodes
        /\ nodes[Root].depth = 0
        /\ nodes[Root].border_box = FullBox(image.size[1], image.size[2])

\* C19: under a fair scheduler a construction that has begun ends: every
\* started thread finishes, every join returns and the root's call returns
\* with every branch built down to a leaf.
C19_BuildTerminates ==
    (phase = "building") ~>
        ( /\ phase = "built"
          /\ \A n \in DOMAIN nodes : Ended(n) /\ Complete(n) )

C19_Witness ==
    /\ phase = "built"
    /\ Cardinality(DOMAIN nodes) = 9
    /\ \A n \in DOMAIN nodes : Ended(n)

\* C20: insert_point, find_node, remove_point and find_node_contain_point
\* leave the tree as it is: the nodes, and of each node everything but its
\* node_points, and max_depth; the two finds leave node_points as well.
C20_CallsKeepTree ==
    [][( \/ Called("insert_point") \/ Called("find_node")
         \/ Called("remove_point") \/ Called("find_node_contain_point") )
       =>
        /\ DOMAIN nodes' = DOMAIN nodes
        /\ \A n \in DOMAIN nodes :
              /\ nodes'[n].childrens = nodes[n].childrens
              /\ nodes'[n].border_box = nodes[n].border_box
              /\ nodes'[n].depth = nodes[n].depth
              /\ nodes'[n].is_leaf = nodes[n].is_leaf
              /\ nodes'[n].average_color = nodes[n].average_color
              /\ nodes'[n].error = nodes[n].error
        /\ max_depth' = max_depth
        /\ lastOp'.op \in {"find_node", "find_node_contain_point"}
              => nodes' = nodes
      ]_vars

C20_Witness ==
    /\ lastOp.op = "find_node_contain_point"
    /\ Len(lastOp.node) = 2
    /\ nodes[lastOp.node].node_points # <<>>
    /\ nodes[Root].node_points # <<>>

\* C21: insert_point and find_node descend alike, a coordinate equal to the
\* centre going to the greater-or-equal side: insert_point changes node_points
\* only at nodes of the list find_node returns for the point, the terminal
\* node of find_node gets the point appended, and each node of that list is
\* followed by its child of the greater-or-equal quadrant.
C21_SameDescent ==
    [][Called("insert_point") =>
        LET point == lastOp'.point
            found == find_node(nodes, Root, point, None)
            list  == found[2]
        IN  /\ nodes'[found[1]].node_points
                  = Append(nodes[found[1]].node_points, point)
            /\ \A n \in DOMAIN nodes :
                  nodes'[n].node_points # nodes[n].node_points
                      => n \in Elems(list)
            /\ \A i \in 1 .. Len(list) - 1 :
                  LET c == nodes[list[i]].node_center_point
                  IN  list[i + 1] = nodes[list[i]].childrens[
                          (IF point.x_coordinate >= c.x_coordinate THEN 2 ELSE 1)
                          + (IF point.y_coordinate >= c.y_coordinate THEN 2 ELSE 0)]
      ]_vars

C21_Witness ==
    /\ lastOp.op = "insert_point"
    /\ lastOp.point = nodes[Root].node_center_point
    /\ LET found == find_node(nodes, Root, lastOp.point, None)
       IN  /\ Len(found[2]) = 3
           /\ found[2][2] = nodes[Root].childrens[4]
           /\ lastOp.point \in Elems(nodes[found[1]].node_points)

\* C22: a run of the command with arguments that check_fields accepts ends
\* without get_leaf_nodes raising: each depth compression_start gives to
\* create_image, the level and the frames of the gif, is at most max_depth.
C22_NoInvalidDepth ==
    lastOp.op = "compression_start" =>
        /\ ~lastOp.raised
        /\ \A i \in 1 .. Len(lastOp.depths) : lastOp.depths[i] <= max_depth

====
